---- MODULE Spec2Model ----
(***************************************************************************)
(* Field-booking subsystem of the football-academy backend:                *)
(* FieldBookingSerializer (apps/bookings/serializers.py),                  *)
(* FieldBookingViewSet (apps/bookings/views.py), BaseModelViewSet          *)
(* (apps/core/views.py) and the Field / FieldBooking models                *)
(* (apps/bookings/models.py).                                              *)
(*                                                                         *)
(* Instants are whole minutes on one time line; money is whole cents.      *)
(* A request body is a function from the keys the client sent to their     *)
(* values, so that "key absent" (data.get(...) is None, or the key is not  *)
(* in validated_data) is distinct from every value.                        *)
(***************************************************************************)
EXTENDS Integers, Sequences, FiniteSets, TLC

VARIABLES
    now,        \* the wall clock, timezone.now()
    fields,     \* Field rows: id -> [hourly_rate, is_available, is_active]
    bookings,   \* committed FieldBooking rows: id -> row
    nextId,     \* the primary-key sequence of FieldBooking
    fieldEdits, \* number of Field edits made so far
    requests,   \* number of requests served so far, where it is counted
    clients,    \* the create requests in flight: client -> progress
    rateRead,   \* history: id -> hourly_rate read at the last write of field/start/end
    last        \* history: the last request and its response

vars ==
    <<now, fields, bookings, nextId, fieldEdits, requests, clients, rateRead,
      last>>

----------------------------------------------------------------------------
(* Bounds of the exploration *)

MaxBookings == 2
MaxNow == 1
MaxFieldEdits == 1
MaxRequests == 4
MaxClients == 2

----------------------------------------------------------------------------
(* Units and the literals of the source *)

Hours(h) == h * 60
Days(d) == d * 24 * 60

CancelHours == 2
ModifyHours == 4
MinHours == 1
MaxHours == 8
AdvanceDays == 90

FieldIds == {1, 2}

\* Field f belongs to academy f.
FieldAcademy(f) == f

\* The users: a system admin, the admin and a player of academy 1, an
\* external client, and a coach of academy 2.
UserIds == 1..5

UserType(u) ==
    CASE u = 1 -> "system_admin"
      [] u = 2 -> "academy_admin"
      [] u = 3 -> "player"
      [] u = 4 -> "external_client"
      [] u = 5 -> "coach"

\* The academy of the user's profile, 0 when the profile has no academy
\* attribute.
UserAcademy(u) ==
    CASE u \in {2, 3} -> 1
      [] u = 5 -> 2
      [] OTHER -> 0

\* The caller of the requests that carry no booked_by.
SystemAdmin == CHOOSE u \in UserIds : UserType(u) = "system_admin"
Rates == {0, 5000}
Statuses == {"pending", "confirmed", "cancelled", "completed"}

----------------------------------------------------------------------------
(* Request bodies *)

Has(d, k) == k \in DOMAIN d

Required(k, S) == {k :> v : v \in S}
Optional(k, S) == {<<>>} \cup Required(k, S)

\* The bodies whose field, start_time, end_time, total_cost and status are
\* drawn (each possibly absent) from the given sets of partial bodies.
Bodies(F, S, E, C, St) ==
    {f @@ s @@ e @@ c @@ st : f \in F, s \in S, e \in E, c \in C, st \in St}

----------------------------------------------------------------------------
(* Pure functions of the models and the serializer *)

\* n / d rounded to the nearest integer, ties to even: the quantisation of a
\* Decimal to DecimalField(decimal_places=2), in cents.  With whole-minute
\* windows and the rates below no quotient falls on a tie.
RoundHalfEven(n, d) ==
    LET q == n \div d
        r == n % d
    IN  IF 2 * r < d THEN q
        ELSE IF 2 * r > d THEN q + 1
        ELSE IF q % 2 = 0 THEN q ELSE q + 1

\* A cost charged by the started hour.
CalcCostStartedHours(rate, s, e) == rate * ((e - s + 59) \div 60)

\* Decimal(str(hours)) * field.hourly_rate with hours = seconds / 3600, as
\* stored in total_cost; rate in cents per hour, s and e in minutes.
CalcCost(rate, s, e) == RoundHalfEven(rate * (e - s), 60)

\* FieldBooking.calculate_total_cost for a row of the window [s, e) on a
\* field of the given rate: field.hourly_rate * Decimal(str(duration_hours)),
\* with duration_hours = total_seconds() / 3600.
CalculateTotalCost(rate, s, e) ==
    LET duration_hours == [n |-> e - s, d |-> 60]
    IN  RoundHalfEven(duration_hours.n * rate, duration_hours.d)

\* FieldBooking.save: a falsy total_cost is recomputed from the row's own
\* field and window before the row is written.
ModelSave(b) ==
    IF b.total_cost = 0
    THEN [b EXCEPT !.total_cost =
              CalculateTotalCost(fields[b.field].hourly_rate, b.start_time,
                                 b.end_time)]
    ELSE b

\* A table without the check constraint.
CheckConstraintNone(b) == TRUE

\* The check constraint end_time_after_start_time of FieldBooking.Meta.
CheckConstraintOk(b) == b.end_time > b.start_time

\* The half-open overlap filter of perform_create:
\* start_time__lt=end_time, end_time__gt=start_time.
Overlaps(b, s, e) == b.start_time < e /\ b.end_time > s

\* status__in=["pending", "confirmed"]
Active == {"pending", "confirmed"}

\* FourClause with a first clause that also takes a booking ending at s.
FourClauseClosed(b, s, e) ==
    \/ b.start_time <= s /\ b.end_time >= s
    \/ b.start_time < e /\ b.end_time >= e
    \/ b.start_time >= s /\ b.end_time <= e
    \/ b.start_time <= s /\ b.end_time >= e

\* The four-clause Q filter of _check_booking_conflicts.
FourClause(b, s, e) ==
    \/ b.start_time <= s /\ b.end_time > s
    \/ b.start_time < e /\ b.end_time >= e
    \/ b.start_time >= s /\ b.end_time <= e
    \/ b.start_time <= s /\ b.end_time >= e

\* FieldBookingSerializer._check_booking_conflicts over the rows bks;
\* inst is the id of self.instance, 0 when there is none.
CheckBookingConflicts(bks, inst, f, s, e) ==
    {i \in DOMAIN bks :
        /\ bks[i].field = f
        /\ i # inst
        /\ bks[i].status \in {"confirmed", "pending"}
        /\ FourClause(bks[i], s, e)}

\* The query of FieldBookingViewSet.perform_create.
ConflictingBookings(bks, f, s, e) ==
    {i \in DOMAIN bks :
        /\ bks[i].field = f
        /\ bks[i].status \in Active
        /\ Overlaps(bks[i], s, e)}

\* The fields the generated serializer requires on a non-partial request:
\* the writable model fields with neither a default nor null/blank.
RequiredKeys == {"field", "start_time", "end_time", "total_cost"}

RequiredMissing(d, partial) ==
    ~partial /\ \E k \in RequiredKeys : ~Has(d, k)

\* TimeError refusing a duration of exactly the minimum.
TimeErrorMinExcluded(d, t1, t2) ==
    IF ~(Has(d, "start_time") /\ Has(d, "end_time")) THEN "ok"
    ELSE IF d.end_time <= d.start_time THEN "end_not_after_start"
    ELSE IF d.end_time - d.start_time <= Hours(MinHours) THEN "min_duration"
    ELSE IF d.end_time - d.start_time > Hours(MaxHours) THEN "max_duration"
    ELSE IF d.start_time <= t1 THEN "not_in_future"
    ELSE IF d.start_time > t2 + Days(AdvanceDays) THEN "too_far_ahead"
    ELSE "ok"

\* TimeError accepting a start equal to the clock.
TimeErrorNowAccepted(d, t1, t2) ==
    IF ~(Has(d, "start_time") /\ Has(d, "end_time")) THEN "ok"
    ELSE IF d.end_time <= d.start_time THEN "end_not_after_start"
    ELSE IF d.end_time - d.start_time < Hours(MinHours) THEN "min_duration"
    ELSE IF d.end_time - d.start_time > Hours(MaxHours) THEN "max_duration"
    ELSE IF d.start_time < t1 THEN "not_in_future"
    ELSE IF d.start_time > t2 + Days(AdvanceDays) THEN "too_far_ahead"
    ELSE "ok"

\* The time rules of FieldBookingSerializer.validate; t1 and t2 are the two
\* readings of timezone.now() (t1 <= t2).
TimeError(d, t1, t2) ==
    IF ~(Has(d, "start_time") /\ Has(d, "end_time")) THEN "ok"
    ELSE IF d.end_time <= d.start_time THEN "end_not_after_start"
    ELSE IF d.end_time - d.start_time < Hours(MinHours) THEN "min_duration"
    ELSE IF d.end_time - d.start_time > Hours(MaxHours) THEN "max_duration"
    ELSE IF d.start_time <= t1 THEN "not_in_future"
    ELSE IF d.start_time > t2 + Days(AdvanceDays) THEN "too_far_ahead"
    ELSE "ok"

\* FieldError testing is_available alone.
FieldErrorAvailableOnly(bks, d, inst) ==
    IF ~(Has(d, "field") /\ Has(d, "start_time") /\ Has(d, "end_time"))
    THEN "ok"
    ELSE IF ~fields[d.field].is_available
    THEN "field_unavailable"
    ELSE IF CheckBookingConflicts(bks, inst, d.field, d.start_time,
                                  d.end_time) # {}
    THEN "conflict"
    ELSE "ok"

\* The field rules of FieldBookingSerializer.validate.
FieldError(bks, d, inst) ==
    IF ~(Has(d, "field") /\ Has(d, "start_time") /\ Has(d, "end_time"))
    THEN "ok"
    ELSE IF ~fields[d.field].is_available \/ ~fields[d.field].is_active
    THEN "field_unavailable"
    ELSE IF CheckBookingConflicts(bks, inst, d.field, d.start_time,
                                  d.end_time) # {}
    THEN "conflict"
    ELSE "ok"

\* FieldBookingSerializer.validate: the first rule that fails, or "ok".
Validate(bks, d, inst, t1, t2) ==
    IF TimeError(d, t1, t2) # "ok" THEN TimeError(d, t1, t2)
    ELSE FieldError(bks, d, inst)

\* The checks of perform_create that precede serializer.save().
PerformCreateError(bks, d) ==
    IF ConflictingBookings(bks, d.field, d.start_time, d.end_time) # {}
    THEN "conflict"
    ELSE IF ~fields[d.field].is_available THEN "field_unavailable"
    ELSE "ok"

\* FieldBookingSerializer.create followed by Model.objects.create: the row
\* built from validated_data, total_cost overwritten by the computed cost,
\* status taken from the body when the body carries one.
SerializerCreate(d) ==
    ModelSave([field      |-> d.field,
               start_time |-> d.start_time,
               end_time   |-> d.end_time,
               total_cost |-> CalcCost(fields[d.field].hourly_rate,
                                       d.start_time, d.end_time),
               status     |-> IF Has(d, "status") THEN d.status ELSE "pending",
               is_active  |-> TRUE])

\* Whether the body sets one of the keys that trigger the recomputation.
SetsWindow(d) == Has(d, "start_time") \/ Has(d, "end_time") \/ Has(d, "field")

\* FieldBookingSerializer.update followed by instance.save().
SerializerUpdate(b, d) ==
    LET f == IF Has(d, "field") THEN d.field ELSE b.field
        s == IF Has(d, "start_time") THEN d.start_time ELSE b.start_time
        e == IF Has(d, "end_time") THEN d.end_time ELSE b.end_time
        c == IF SetsWindow(d) THEN CalcCost(fields[f].hourly_rate, s, e)
             ELSE IF Has(d, "total_cost") THEN d.total_cost
             ELSE b.total_cost
        st == IF Has(d, "status") THEN d.status ELSE b.status
    IN  ModelSave([b EXCEPT !.field = f, !.start_time = s, !.end_time = e,
                            !.total_cost = c, !.status = st])

\* Every user type, as if each were privileged.
AdminTypesAll ==
    {"system_admin", "academy_admin", "coach", "player", "parent",
     "external_client"}

\* user.user_type in ["academy_admin", "system_admin"]
AdminTypes == {"academy_admin", "system_admin"}

\* FieldBookingSerializer.get_fields: booked_by is writable for the admin
\* types and read-only, hence dropped from the data, for everyone else.
ValidatedData(caller, d) ==
    IF UserType(caller) \in AdminTypes THEN d
    ELSE [k \in DOMAIN d \ {"booked_by"} |-> d[k]]

\* The booked_by rules of FieldBookingSerializer.validate.
BookedByError(caller, d) ==
    IF UserType(caller) \in AdminTypes
    THEN IF Has(d, "booked_by") /\ UserType(caller) = "academy_admin"
         THEN IF UserAcademy(caller) = 0 THEN "caller_no_academy"
              ELSE IF UserAcademy(d.booked_by) = 0 THEN "user_no_academy"
              ELSE IF UserAcademy(d.booked_by) # UserAcademy(caller)
              THEN "other_academy"
              ELSE "ok"
         ELSE "ok"
    ELSE IF Has(d, "booked_by") /\ d.booked_by # caller THEN "not_yourself"
    ELSE "ok"

\* The booked_by that FieldBookingSerializer.create stores.
BookedBy(caller, d) ==
    IF UserType(caller) \in AdminTypes /\ Has(d, "booked_by")
    THEN d.booked_by
    ELSE caller

\* The opening and closing hours between which _generate_time_suggestions
\* looks for gaps, and the number of suggestions it stops at.
DayOpenHour == 8
DayCloseHour == 22
MaxSuggestions == 3

\* The first instant of the calendar day of t.
DayOf(t) == (t \div Days(1)) * Days(1)

Later(a, b) == IF a >= b THEN a ELSE b

\* The loop of _generate_time_suggestions over the bookings ids of the day,
\* taken by ascending start_time, from the instant cur with the suggestions
\* acc made so far: the pair of the final current_time and the suggestions.
\* Bookings of equal start_time are taken by id; the loop yields the same
\* pair whatever their order.
RECURSIVE SuggestionLoop(_, _, _, _, _)
SuggestionLoop(bks, ids, cur, dur, acc) ==
    IF ids = {} THEN <<cur, acc>>
    ELSE LET i == CHOOSE x \in ids :
                      \A y \in ids :
                          \/ bks[x].start_time < bks[y].start_time
                          \/ bks[x].start_time = bks[y].start_time /\ x <= y
             gap == /\ bks[i].start_time > cur
                    /\ bks[i].start_time - cur >= dur
             acc2 == IF gap
                     THEN Append(acc, [start_time |-> cur,
                                       end_time |-> cur + dur])
                     ELSE acc
         IN  IF gap /\ Len(acc2) >= MaxSuggestions THEN <<cur, acc2>>
             ELSE SuggestionLoop(bks, ids \ {i}, Later(cur, bks[i].end_time),
                                 dur, acc2)

\* The day's bookings, read without the pending ones.
DayBookingsConfirmed(bks, f, s) ==
    {i \in DOMAIN bks :
        /\ bks[i].field = f
        /\ bks[i].status = "confirmed"
        /\ DayOf(bks[i].start_time) = DayOf(s)}

\* day_bookings: the pending and confirmed bookings of the field that start
\* on the calendar day of s.
DayBookings(bks, f, s) ==
    {i \in DOMAIN bks :
        /\ bks[i].field = f
        /\ bks[i].status \in {"confirmed", "pending"}
        /\ DayOf(bks[i].start_time) = DayOf(s)}

\* BookingConflictChecker._generate_time_suggestions.
GenerateTimeSuggestions(bks, f, s, e) ==
    LET dur == e - s
        dayStart == DayOf(s) + Hours(DayOpenHour)
        dayEnd == DayOf(s) + Hours(DayCloseHour)
        r == SuggestionLoop(bks, DayBookings(bks, f, s), dayStart, dur, <<>>)
    IN  IF r[1] + dur <= dayEnd /\ Len(r[2]) < MaxSuggestions
        THEN Append(r[2], [start_time |-> r[1], end_time |-> r[1] + dur])
        ELSE r[2]

\* The answer of check_field_availability.
Answer(available, conflicts, suggestions, reason) ==
    [available |-> available, conflicts |-> conflicts,
     suggestions |-> suggestions, reason |-> reason]

\* CheckFieldAvailability with closed windows: a booking that touches the
\* window counts as a conflict.
CheckFieldAvailabilityClosed(bks, f, s, e, exclude) ==
    LET conflicts == {i \in DOMAIN bks :
                         /\ bks[i].field = f
                         /\ bks[i].status \in {"confirmed", "pending"}
                         /\ bks[i].start_time <= e /\ bks[i].end_time >= s
                         /\ (exclude # 0 => i # exclude)}
    IN  IF ~fields[f].is_active \/ ~fields[f].is_available
        THEN Answer(FALSE, {}, <<>>, "field")
        ELSE IF conflicts # {}
        THEN Answer(FALSE, conflicts,
                    GenerateTimeSuggestions(bks, f, s, e), "conflict")
        ELSE Answer(TRUE, {}, <<>>, "free")

\* CheckFieldAvailability without the test of the field's flags.
CheckFieldAvailabilityAnyField(bks, f, s, e, exclude) ==
    LET conflicts == {i \in DOMAIN bks :
                         /\ bks[i].field = f
                         /\ bks[i].status \in {"confirmed", "pending"}
                         /\ Overlaps(bks[i], s, e)
                         /\ (exclude # 0 => i # exclude)}
    IN  IF conflicts # {}
        THEN Answer(FALSE, conflicts,
                    GenerateTimeSuggestions(bks, f, s, e), "conflict")
        ELSE Answer(TRUE, {}, <<>>, "free")

\* BookingConflictChecker.check_field_availability; exclude is
\* exclude_booking_id, 0 when none is given.
CheckFieldAvailability(bks, f, s, e, exclude) ==
    LET conflicts == {i \in DOMAIN bks :
                         /\ bks[i].field = f
                         /\ bks[i].status \in {"confirmed", "pending"}
                         /\ Overlaps(bks[i], s, e)
                         /\ (exclude # 0 => i # exclude)}
    IN  IF ~fields[f].is_active \/ ~fields[f].is_available
        THEN Answer(FALSE, {}, <<>>, "field")
        ELSE IF conflicts # {}
        THEN Answer(FALSE, conflicts,
                    GenerateTimeSuggestions(bks, f, s, e), "conflict")
        ELSE Answer(TRUE, {}, <<>>, "free")

\* A start_date or end_date that is not given (None).
NoDate == -1

DefaultDays == 30

HoursPerDay == 14

\* The calendar date of the instant t, as a number of days.
DateOf(t) == t \div Days(1)

\* The sum over the rows ids of end_time - start_time, in minutes.
RECURSIVE BookedMinutes(_, _)
BookedMinutes(bks, ids) ==
    IF ids = {} THEN 0
    ELSE LET i == CHOOSE x \in ids : TRUE
         IN  (bks[i].end_time - bks[i].start_time)
                 + BookedMinutes(bks, ids \ {i})

\* The number of days of a range counted without its last day.
RangeDaysExclusive(sd, ed) ==
    IF sd # NoDate /\ ed # NoDate THEN ed - sd ELSE DefaultDays

\* days: (end_date - start_date).days + 1, or 30 when a date is missing.
RangeDays(sd, ed) ==
    IF sd # NoDate /\ ed # NoDate THEN ed - sd + 1 ELSE DefaultDays

\* BookingStatisticsCalculator.get_field_utilization_rate for dates sd and
\* ed; total_booked_hours in hundredths of an hour, utilization_rate in
\* hundredths of a percent.
GetFieldUtilizationRate(bks, f, sd, ed) ==
    LET queryset == {i \in DOMAIN bks :
                        /\ bks[i].field = f
                        /\ bks[i].status \in {"confirmed", "completed"}
                        /\ sd # NoDate => DateOf(bks[i].start_time) >= sd
                        /\ ed # NoDate => DateOf(bks[i].start_time) <= ed}
        total_booked_minutes == BookedMinutes(bks, queryset)
        days == RangeDays(sd, ed)
        total_available_hours == days * HoursPerDay
    IN  [total_booked_hours |-> RoundHalfEven(total_booked_minutes * 100, 60),
         total_available_hours |-> total_available_hours,
         utilization_rate |->
             IF total_available_hours > 0
             THEN RoundHalfEven(total_booked_minutes * 100 * 100,
                                60 * total_available_hours)
             ELSE 0,
         booking_count |-> Cardinality(queryset)]

\* The response data of FieldViewSet.availability for the window [s, e).
FieldAvailability(bks, f, s, e) ==
    LET conflicting_bookings == {i \in DOMAIN bks :
                                    /\ bks[i].field = f
                                    /\ bks[i].status \in
                                           {"pending", "confirmed"}
                                    /\ bks[i].start_time < e
                                    /\ bks[i].end_time > s}
    IN  [available |-> conflicting_bookings = {} /\ fields[f].is_available,
         conflicts |-> conflicting_bookings]

\* FieldBookingSerializer.get_can_cancel and get_can_modify at the instant t.
GetCanCancel(b, t) ==
    IF b.status \in {"cancelled", "completed"} THEN FALSE
    ELSE IF b.start_time <= t + Hours(CancelHours) THEN FALSE
    ELSE TRUE

GetCanModify(b, t) ==
    IF b.status \in {"cancelled", "completed"} THEN FALSE
    ELSE IF b.start_time <= t + Hours(ModifyHours) THEN FALSE
    ELSE TRUE

\* The properties FieldBooking.can_cancel and FieldBooking.can_modify at the
\* instant t.
CanCancel(b, t) ==
    b.start_time > t /\ b.status \notin {"cancelled", "completed"}

CanModify(b, t) == b.start_time > t /\ b.status = "pending"

\* BaseModelViewSet.get_queryset + get_object: the row exists and is active.
Visible(bks, id) == id \in DOMAIN bks /\ bks[id].is_active

----------------------------------------------------------------------------
(* Requests.  Each action is one HTTP request run to completion inside its  *)
(* transaction.atomic block: a request that ends with an error leaves the   *)
(* rows as they were.                                                       *)

NoBody == <<>>

\* A unit of work that keeps its writes.
AtomicNoRollback(before, after, raised) == after

\* transaction.atomic around a handler: the rows after the unit of work,
\* given the rows before it, the rows as written by it, and whether an
\* exception left the block.
Atomic(before, after, raised) == IF raised THEN before ELSE after

\* The delivery of the notification e-mails of a request.
MailOutcomes == {"sent", "failed"}

\* A failed delivery that reaches the caller of the handler.
MailFailureRaised(op) == "raised"

\* What a handler does with a delivery failure: BookingEmailService and the
\* handler's own try/except log it.
MailFailure(op) == "logged"

\* The record kept of a request (an availability query has its answer
\* added as the field answer): operation, target id (0 when none), HTTP
\* status code, the rule that rejected it ("ok" when none), the booking
\* status named in the error message ("" when none), the body, and the two
\* clock readings.
Response(op, id, code, err, named, d, t1, t2) ==
    [op |-> op, id |-> id, code |-> code, err |-> err, named |-> named,
     body |-> d, t1 |-> t1, t2 |-> t2]

\* CreateError without either conflict query: the time rules and the
\* availability flags only.
CreateErrorNoConflictQuery(bks, d, t1, t2) ==
    IF RequiredMissing(d, FALSE) THEN "required"
    ELSE IF TimeError(d, t1, t2) # "ok" THEN TimeError(d, t1, t2)
    ELSE IF ~fields[d.field].is_available \/ ~fields[d.field].is_active
    THEN "field_unavailable"
    ELSE "ok"

\* The outcome of the checks a create request passes through before
\* serializer.save(): field validation, validate(), perform_create.
CreateError(bks, d, t1, t2) ==
    IF RequiredMissing(d, FALSE) THEN "required"
    ELSE IF Validate(bks, d, 0, t1, t2) # "ok" THEN Validate(bks, d, 0, t1, t2)
    ELSE PerformCreateError(bks, d)

\* POST /bookings/ by a caller of C with a body of B; the clock advances by
\* a drift of Dr between the two readings of timezone.now() in validate,
\* and the e-mails sent after the insert have an outcome of M.  The body is
\* kept in the history when keep holds, the caller and the outcome of the
\* e-mails always.
CreateRequestMail(C, B, Dr, keep, M) ==
    \E caller \in C, body \in B, drift \in Dr, m \in M :
        LET t1 == now
            t2 == now + drift
            d == ValidatedData(caller, body)
            err == IF RequiredMissing(d, FALSE) THEN "required"
                   ELSE IF BookedByError(caller, d) # "ok"
                   THEN BookedByError(caller, d)
                   ELSE CreateError(bookings, d, t1, t2)
            row == [booked_by |-> BookedBy(caller, d)] @@ SerializerCreate(d)
            log == IF keep THEN body ELSE NoBody
            by == [caller |-> caller]
            raised == m = "failed" /\ MailFailure("create") = "raised"
        IN  /\ t2 <= MaxNow
            /\ now' = t2
            /\ UNCHANGED <<fields, fieldEdits>>
            /\ IF err # "ok"
               THEN /\ last' = by @@ Response("create", 0, 400, err, "", log,
                                              t1, t2)
                    /\ UNCHANGED <<bookings, nextId, rateRead>>
               ELSE IF ~CheckConstraintOk(row)
               THEN /\ last' = by @@ Response("create", 0, 500, "integrity",
                                              "", log, t1, t2)
                    /\ UNCHANGED <<bookings, nextId, rateRead>>
               ELSE /\ nextId <= MaxBookings
                    /\ bookings' = Atomic(bookings, (nextId :> row) @@ bookings,
                                          raised)
                    /\ rateRead' = (nextId :> fields[d.field].hourly_rate)
                                       @@ rateRead
                    /\ nextId' = nextId + 1
                    /\ last' = IF raised
                               THEN [mail |-> m] @@ by
                                    @@ Response("create", 0, 500, "mail", "",
                                                log, t1, t2)
                               ELSE [mail |-> m] @@ by
                                    @@ Response("create", nextId, 201, "ok",
                                                "", log, t1, t2)

\* POST /bookings/ whose e-mails are delivered.
CreateRequestBy(C, B, Dr, keep) == CreateRequestMail(C, B, Dr, keep, {"sent"})

\* POST /bookings/ by the system admin with a body of B, which names no
\* booked_by.
CreateRequest(B, Dr, keep) == CreateRequestBy({SystemAdmin}, B, Dr, keep)

\* PUT (partial = FALSE) or PATCH (partial = TRUE) /bookings/{id}/.
UpdateRequest(partial, B, Dr, keep) ==
    \E id \in 1..MaxBookings, d \in B, drift \in Dr :
        LET t1 == now
            t2 == now + drift
            op == IF partial THEN "partial_update" ELSE "update"
            log == IF keep THEN d ELSE NoBody
        IN  /\ t2 <= MaxNow
            /\ now' = t2
            /\ UNCHANGED <<fields, fieldEdits, nextId>>
            /\ IF ~Visible(bookings, id)
               THEN /\ last' = Response(op, id, 404, "not_found", "", log, t1, t2)
                    /\ UNCHANGED <<bookings, rateRead>>
               ELSE LET err == IF RequiredMissing(d, partial) THEN "required"
                               ELSE Validate(bookings, d, id, t1, t2)
                        row == SerializerUpdate(bookings[id], d)
                    IN  IF err # "ok"
                        THEN /\ last' = Response(op, id, 400, err, "", log, t1, t2)
                             /\ UNCHANGED <<bookings, rateRead>>
                        ELSE IF ~CheckConstraintOk(row)
                        THEN /\ last' = Response(op, id, 500, "integrity", "",
                                                 log, t1, t2)
                             /\ bookings' =
                                  Atomic(bookings,
                                         [bookings EXCEPT ![id] = row], TRUE)
                             /\ UNCHANGED rateRead
                        ELSE /\ bookings' =
                                  Atomic(bookings,
                                         [bookings EXCEPT ![id] = row], FALSE)
                             /\ rateRead' =
                                  IF SetsWindow(d)
                                  THEN [rateRead EXCEPT ![id] =
                                            fields[row.field].hourly_rate]
                                  ELSE rateRead
                             /\ last' = Response(op, id, 200, "ok", "", log,
                                                 t1, t2)

Update(B, Dr, keep) == UpdateRequest(FALSE, B, Dr, keep)

PartialUpdate(B, Dr, keep) == UpdateRequest(TRUE, B, Dr, keep)

\* The status guards of the three actions.
ConfirmAllowedTwice(st) == st \in {"pending", "confirmed"}

ConfirmAllowed(st) == st = "pending"

CancelAllowedPendingOnly(st) == st = "pending"

CancelAllowed(st) == st \notin {"cancelled", "completed"}

CompleteAllowedUnconfirmed(st) == st \in {"pending", "confirmed"}

CompleteAllowed(st) == st = "confirmed"

\* The shared shape of confirm, cancel and complete: get_object, the status
\* guard, then booking.status = new; booking.save(), then the e-mail, whose
\* delivery has an outcome of M.
StatusActionMail(op, allowed, new, M) ==
    \E id \in 1..MaxBookings, m \in M :
        /\ UNCHANGED <<now, fields, fieldEdits, nextId, rateRead>>
        /\ IF ~Visible(bookings, id)
           THEN /\ last' = Response(op, id, 404, "not_found", "", NoBody,
                                    now, now)
                /\ UNCHANGED bookings
           ELSE IF ~allowed[bookings[id].status]
           THEN /\ last' = Response(op, id, 400, "status",
                                    bookings[id].status, NoBody, now, now)
                /\ UNCHANGED bookings
           ELSE LET raised == m = "failed" /\ MailFailure(op) = "raised"
                IN  /\ bookings' =
                         Atomic(bookings,
                                [bookings EXCEPT ![id] =
                                    ModelSave([bookings[id] EXCEPT
                                                   !.status = new])],
                                raised)
                    /\ last' = IF raised
                               THEN [mail |-> m]
                                    @@ Response(op, id, 500, "mail", "",
                                                NoBody, now, now)
                               ELSE [mail |-> m]
                                    @@ Response(op, id, 200, "ok", "", NoBody,
                                                now, now)

\* A status action whose e-mail is delivered.
StatusAction(op, allowed, new) == StatusActionMail(op, allowed, new, {"sent"})

Confirm ==
    StatusAction("confirm", [st \in Statuses |-> ConfirmAllowed(st)],
                 "confirmed")

Cancel ==
    StatusAction("cancel", [st \in Statuses |-> CancelAllowed(st)],
                 "cancelled")

Complete ==
    StatusAction("complete", [st \in Statuses |-> CompleteAllowed(st)],
                 "completed")

\* The status actions with e-mails that are delivered or fail.
ConfirmMail ==
    StatusActionMail("confirm", [st \in Statuses |-> ConfirmAllowed(st)],
                     "confirmed", MailOutcomes)

CancelMail ==
    StatusActionMail("cancel", [st \in Statuses |-> CancelAllowed(st)],
                     "cancelled", MailOutcomes)

CompleteMail ==
    StatusActionMail("complete", [st \in Statuses |-> CompleteAllowed(st)],
                     "completed", MailOutcomes)

\* POST /bookings/{id}/toggle_active/.
ToggleActive ==
    \E id \in 1..MaxBookings :
        /\ UNCHANGED <<now, fields, fieldEdits, nextId, rateRead>>
        /\ IF ~Visible(bookings, id)
           THEN /\ last' = Response("toggle_active", id, 404, "not_found", "",
                                    NoBody, now, now)
                /\ UNCHANGED bookings
           ELSE /\ bookings' = [bookings EXCEPT ![id] =
                                   ModelSave([bookings[id] EXCEPT
                                       !.is_active = ~bookings[id].is_active])]
                /\ last' = Response("toggle_active", id, 200, "ok", "",
                                    NoBody, now, now)

\* GET /bookings/{id}/: the serialized booking, of which the history keeps
\* can_cancel and can_modify.
Retrieve ==
    \E id \in 1..MaxBookings :
        /\ UNCHANGED <<now, fields, bookings, nextId, fieldEdits, rateRead>>
        /\ IF ~Visible(bookings, id)
           THEN last' = Response("retrieve", id, 404, "not_found", "", NoBody,
                                 now, now)
           ELSE last' = [can_cancel |-> GetCanCancel(bookings[id], now),
                         can_modify |-> GetCanModify(bookings[id], now)]
                        @@ Response("retrieve", id, 200, "ok", "", NoBody,
                                    now, now)

\* DELETE /bookings/{id}/: ModelViewSet.destroy deletes the row.
Destroy ==
    \E id \in 1..MaxBookings :
        /\ UNCHANGED <<now, fields, nextId, fieldEdits, rateRead>>
        /\ IF ~Visible(bookings, id)
           THEN /\ last' = Response("destroy", id, 404, "not_found", "",
                                    NoBody, now, now)
                /\ UNCHANGED bookings
           ELSE /\ bookings' = [i \in DOMAIN bookings \ {id} |-> bookings[i]]
                /\ last' = Response("destroy", id, 204, "ok", "", NoBody,
                                    now, now)

\* PATCH /fields/{id}/ setting one attribute of K.
FieldUpdateRequest(K) ==
    \E f \in FieldIds, k \in K :
        \E v \in IF k = "hourly_rate" THEN Rates ELSE BOOLEAN :
            /\ fieldEdits < MaxFieldEdits
            /\ fields[f].is_active
            /\ fields' = [fields EXCEPT ![f] =
                             IF k = "hourly_rate"
                             THEN [@ EXCEPT !.hourly_rate = v]
                             ELSE IF k = "is_available"
                             THEN [@ EXCEPT !.is_available = v]
                             ELSE [@ EXCEPT !.is_active = v]]
            /\ fieldEdits' = fieldEdits + 1
            /\ last' = Response("field_update", f, 200, "ok", "", NoBody,
                                now, now)
            /\ UNCHANGED <<now, bookings, nextId, rateRead>>

\* PATCH /fields/{id}/ setting one of hourly_rate, is_available, is_active.
FieldUpdate == FieldUpdateRequest({"hourly_rate", "is_available", "is_active"})

\* An availability query.
Query(f, s, e, exclude) ==
    [field |-> f, start_time |-> s, end_time |-> e, exclude |-> exclude]

\* check_field_availability applied to a field, a window of S x E and an
\* exclude_booking_id of X.  POST /bookings/check_availability/ is the case
\* X = {0}; BookingAvailabilitySerializer refuses end_time <= start_time.
CheckAvailability(S, E, X) ==
    \E f \in FieldIds, s \in S, e \in E, x \in X :
        /\ UNCHANGED <<now, fields, bookings, nextId, fieldEdits, rateRead>>
        /\ IF e <= s
           THEN last' = Response("check_availability", f, 400,
                                 "end_not_after_start", "",
                                 Query(f, s, e, x), now, now)
           ELSE last' = [answer |->
                             CheckFieldAvailability(bookings, f, s, e, x)]
                        @@ Response("check_availability", f, 200, "ok", "",
                                    Query(f, s, e, x), now, now)

\* The cost of a window of duration d that starts at s on a field of rate r,
\* as computed by FieldBookingSerializer.create and update and by
\* FieldBooking.calculate_total_cost.
ComputeCost(R, S, D) ==
    \E r \in R, s \in S, d \in D :
        /\ UNCHANGED <<now, fields, bookings, nextId, fieldEdits, rateRead>>
        /\ last' = [rate |-> r,
                     serializer |-> CalcCost(r, s, s + d),
                     model |-> CalculateTotalCost(r, s, s + d)]
                    @@ Response("cost", 0, 0, "ok", "",
                                ("start_time" :> s) @@ ("end_time" :> s + d),
                                now, now)

\* GET /fields/{id}/utilization/?start_date=&end_date=, of which the history
\* keeps the basic statistics.
Utilization(SD, ED) ==
    \E f \in FieldIds, sd \in SD, ed \in ED :
        /\ UNCHANGED <<now, fields, bookings, nextId, fieldEdits, rateRead>>
        /\ IF ~fields[f].is_active
           THEN last' = Response("utilization", f, 404, "not_found", "",
                                 [start_date |-> sd, end_date |-> ed],
                                 now, now)
           ELSE last' = [answer |->
                             GetFieldUtilizationRate(bookings, f, sd, ed)]
                        @@ Response("utilization", f, 200, "ok", "",
                                    [start_date |-> sd, end_date |-> ed],
                                    now, now)

\* GET /fields/{id}/availability/?start_time=&end_time=.
AvailabilityRequest(S, E) ==
    \E f \in FieldIds, s \in S, e \in E :
        /\ UNCHANGED <<now, fields, bookings, nextId, fieldEdits, rateRead>>
        /\ IF ~fields[f].is_active
           THEN last' = Response("availability", f, 404, "not_found", "",
                                 Query(f, s, e, 0), now, now)
           ELSE IF s >= e
           THEN last' = Response("availability", f, 400,
                                 "start_not_before_end", "",
                                 Query(f, s, e, 0), now, now)
           ELSE last' = [answer |-> FieldAvailability(bookings, f, s, e)]
                        @@ Response("availability", f, 200, "ok", "",
                                    Query(f, s, e, 0), now, now)

\* The clock moves on by one minute.
Tick ==
    /\ now < MaxNow
    /\ now' = now + 1
    /\ last' = Response("tick", 0, 0, "ok", "", NoBody, now, now + 1)
    /\ UNCHANGED <<fields, bookings, nextId, fieldEdits, rateRead>>

----------------------------------------------------------------------------
(* Create requests served concurrently.  Each request runs in its own       *)
(* transaction (BaseModelViewSet.create and perform_create are wrapped in   *)
(* transaction.atomic) at the database's default isolation level, READ      *)
(* COMMITTED: a query sees the rows committed before it runs and the rows   *)
(* its own transaction wrote; an INSERT is seen by the other transactions   *)
(* once its transaction has committed.                                      *)

\* A client with no request in flight.  inserts is the number of INSERTs the
\* database had executed when the request passed perform_create's query,
\* -1 until then.
Idle == [pc |-> "idle", body |-> NoBody, id |-> 0, inserts |-> -1]

\* StorageAccepts with an exclusion constraint over the windows of the
\* pending and confirmed rows of a field.
StorageAcceptsExclusive(written, row) ==
    /\ CheckConstraintOk(row)
    /\ \A w \in written :
           ~(/\ w.field = row.field
             /\ w.status \in {"pending", "confirmed"}
             /\ row.status \in {"pending", "confirmed"}
             /\ Overlaps(w, row.start_time, row.end_time))

\* What the database enforces on a row at INSERT, given the rows written so
\* far by any transaction: the constraints of FieldBooking.Meta.
StorageAccepts(written, row) == CheckConstraintOk(row)

\* The rows other transactions have inserted and not yet committed.
Uncommitted(c) ==
    {clients[o].row : o \in {o \in 1..MaxClients :
                               o # c /\ clients[o].pc = "inserted"}}

\* serializer.is_valid(): field validation and validate(), with its conflict
\* query, at the start of the request.
RaceValidate(c, B) ==
    \E d \in B :
        LET err == IF RequiredMissing(d, FALSE) THEN "required"
                   ELSE Validate(bookings, d, 0, now, now)
        IN  /\ clients[c].pc = "idle"
            /\ IF err = "ok"
               THEN /\ clients' = [clients EXCEPT ![c] =
                                      [Idle EXCEPT !.pc = "validated",
                                                   !.body = d]]
                    /\ UNCHANGED last
               ELSE /\ clients' = [clients EXCEPT ![c] =
                                      [Idle EXCEPT !.pc = "rejected",
                                                   !.body = d]]
                    /\ last' = Response("create", 0, 400, err, "", d, now, now)
            /\ UNCHANGED <<now, fields, bookings, nextId, fieldEdits, requests,
                           rateRead>>

\* The conflict query and the availability test of perform_create.
RaceCheck(c) ==
    LET d == clients[c].body
        err == PerformCreateError(bookings, d)
    IN  /\ clients[c].pc = "validated"
        /\ IF err = "ok"
           THEN /\ clients' = [clients EXCEPT ![c].pc = "checked",
                                              ![c].inserts = nextId - 1]
                /\ UNCHANGED last
           ELSE /\ clients' = [clients EXCEPT ![c].pc = "rejected"]
                /\ last' = Response("create", 0, 400, err, "", d, now, now)
        /\ UNCHANGED <<now, fields, bookings, nextId, fieldEdits, requests,
                       rateRead>>

\* serializer.save(): the INSERT, inside the transaction.
RaceInsert(c) ==
    LET d == clients[c].body
        row == [booked_by |-> SystemAdmin] @@ SerializerCreate(d)
    IN  /\ clients[c].pc = "checked"
        /\ nextId <= MaxBookings
        /\ IF StorageAccepts(
                  {bookings[i] : i \in DOMAIN bookings} \cup Uncommitted(c),
                  row)
           THEN /\ clients' = [clients EXCEPT ![c] =
                                  [pc |-> "inserted", body |-> d,
                                   id |-> nextId,
                                   inserts |-> clients[c].inserts,
                                   row |-> row]]
                /\ nextId' = nextId + 1
                /\ UNCHANGED last
           ELSE /\ clients' = [clients EXCEPT ![c].pc = "rejected"]
                /\ last' = Response("create", 0, 500, "integrity", "", d,
                                    now, now)
                /\ UNCHANGED nextId
        /\ UNCHANGED <<now, fields, bookings, fieldEdits, requests, rateRead>>

\* The transaction commits as the view returns 201.
RaceCommit(c) ==
    /\ clients[c].pc = "inserted"
    /\ bookings' = (clients[c].id :> clients[c].row) @@ bookings
    /\ rateRead' = (clients[c].id :> fields[clients[c].row.field].hourly_rate)
                       @@ rateRead
    /\ clients' = [clients EXCEPT ![c] =
                      [pc |-> "done", body |-> clients[c].body,
                       id |-> clients[c].id, inserts |-> clients[c].inserts]]
    /\ last' = Response("create", clients[c].id, 201, "ok", "",
                        clients[c].body, now, now)
    /\ UNCHANGED <<now, fields, nextId, fieldEdits, requests>>

----------------------------------------------------------------------------
(* Status actions served concurrently.  confirm, cancel and complete each   *)
(* run in their own transaction.atomic block at READ COMMITTED: get_object  *)
(* is a plain SELECT (no select_for_update), the guard is tested on the     *)
(* instance read, and booking.save() is an UPDATE of every column of the    *)
(* row from that instance, which waits for the row lock of an UPDATE that   *)
(* has not committed yet.                                                   *)

\* The guard and the new status of a status action.
StatusAllowed(op, st) ==
    CASE op = "confirm" -> ConfirmAllowed(st)
      [] op = "cancel" -> CancelAllowed(st)
      [] op = "complete" -> CompleteAllowed(st)

StatusSet(op) ==
    CASE op = "confirm" -> "confirmed"
      [] op = "cancel" -> "cancelled"
      [] op = "complete" -> "completed"

\* get_object and the status guard.
StatusRead(c, op, id) ==
    /\ clients[c].pc = "idle"
    /\ IF ~Visible(bookings, id)
       THEN /\ clients' = [clients EXCEPT ![c] =
                              [Idle EXCEPT !.pc = "rejected", !.id = id]]
            /\ last' = Response(op, id, 404, "not_found", "", NoBody,
                                now, now)
       ELSE IF ~StatusAllowed(op, bookings[id].status)
       THEN /\ clients' = [clients EXCEPT ![c] =
                              [Idle EXCEPT !.pc = "rejected", !.id = id]]
            /\ last' = Response(op, id, 400, "status", bookings[id].status,
                                NoBody, now, now)
       ELSE /\ clients' = [clients EXCEPT ![c] =
                              [op |-> op, row |-> bookings[id]]
                              @@ [Idle EXCEPT !.pc = "read", !.id = id]]
            /\ UNCHANGED last
    /\ UNCHANGED <<now, fields, bookings, nextId, fieldEdits, requests,
                   rateRead>>

\* booking.status = new; booking.save(): the UPDATE, once no other
\* transaction holds the row.
StatusWrite(c) ==
    /\ clients[c].pc = "read"
    /\ \A o \in 1..MaxClients :
           ~(o # c /\ clients[o].pc = "written"
                   /\ clients[o].id = clients[c].id)
    /\ clients' = [clients EXCEPT
                      ![c].pc = "written",
                      ![c].row = ModelSave([clients[c].row EXCEPT
                                     !.status = StatusSet(clients[c].op)])]
    /\ UNCHANGED <<now, fields, bookings, nextId, fieldEdits, requests,
                   rateRead, last>>

\* The transaction commits as the view returns 200.
StatusCommit(c) ==
    /\ clients[c].pc = "written"
    /\ bookings' = [bookings EXCEPT ![clients[c].id] = clients[c].row]
    /\ clients' = [clients EXCEPT ![c].pc = "done"]
    /\ last' = Response(clients[c].op, clients[c].id, 200, "ok", "", NoBody,
                        now, now)
    /\ UNCHANGED <<now, fields, nextId, fieldEdits, requests, rateRead>>

----------------------------------------------------------------------------
(* Inputs *)

\* Instants offered by the clients of the full interface: the windows
\* [1,61), [61,121) and [1,121), and the empty window [61,61).
StartTimes == {1, 61}
EndTimes == {61, 121}
ClientCosts == {0, 999}
ClientStatuses == {"pending", "completed"}

\* Complete bodies, with or without a status, and the empty body.
FullBodies ==
    {NoBody} \cup
    Bodies(Required("field", FieldIds), Required("start_time", StartTimes),
           Required("end_time", EndTimes), Required("total_cost", {999}),
           Optional("status", ClientStatuses))

\* Complete bodies that ask for the default status or for confirmed, and
\* the empty body.
LifecycleBodies ==
    {NoBody} \cup
    Bodies(Required("field", FieldIds), Required("start_time", StartTimes),
           Required("end_time", EndTimes), Required("total_cost", {999}),
           Optional("status", {"confirmed"}))

\* Partial bodies: every subset of field, start_time and end_time, or a
\* total_cost alone, or a status alone.
PatchBodies ==
    Bodies(Optional("field", FieldIds), Optional("start_time", StartTimes),
           Optional("end_time", EndTimes), {NoBody}, {NoBody})
    \cup Required("total_cost", ClientCosts)
    \cup Required("status", ClientStatuses)

\* Complete bodies for the one window [61,121) of field 1.
SlotBodies ==
    Bodies(Required("field", {1}), Required("start_time", {61}),
           Required("end_time", {121}), Required("total_cost", {999}),
           Optional("status", ClientStatuses))

\* Complete bodies with no status whose window starts at an instant of S and
\* lasts a duration of D.
WindowBodies(F, S, D) ==
    {("field" :> f) @@ ("start_time" :> s) @@ ("end_time" :> s + d)
        @@ ("total_cost" :> 999) : f \in F, s \in S, d \in D}

\* Instants around the clock and around the 90-day horizon, and durations
\* around the 1-hour and 8-hour limits.
BoundaryStarts ==
    {0, 1, 2, Days(AdvanceDays), Days(AdvanceDays) + 1, Days(AdvanceDays + 1)}
BoundaryDurations ==
    {Hours(MinHours) - 1, Hours(MinHours), Hours(MaxHours), Hours(MaxHours) + 1}

BoundaryBodies == WindowBodies({1}, BoundaryStarts, BoundaryDurations)

\* Complete bodies with no status.
PlainBodies ==
    Bodies(Required("field", FieldIds), Required("start_time", StartTimes),
           Required("end_time", EndTimes), Required("total_cost", {999}),
           {NoBody})

\* Instants inside the opening hours of day 0, 09:00 to 11:00, and the end
\* of a window too long for any gap of the day.
DayStarts == {Hours(9), Hours(10)}
DayEnds == {Hours(10), Hours(11)}
QueryEnds == DayEnds \cup {Hours(9) + Hours(15)}

\* Complete bodies for the one-hour windows of the day on field 1, asking
\* for the default status, for confirmed or for completed.
DayBodies ==
    {d \in Bodies(Required("field", {1}), Required("start_time", DayStarts),
                  Required("end_time", DayEnds),
                  Required("total_cost", {999}),
                  Optional("status", {"confirmed", "completed"})) :
        d.end_time - d.start_time = Hours(1)}

\* Partial bodies made of field, start_time and end_time only.
EditBodies ==
    Bodies(Optional("field", {2}), Optional("start_time", StartTimes),
           Optional("end_time", EndTimes), {NoBody}, {NoBody})

\* Complete bodies for windows of field 1: 1 hour at 13:00 of day 0, 8 hours
\* from 23:00 of day 0, and 1 hour at 09:00 of day 1.
UtilizationBodies ==
    WindowBodies({1}, {Hours(13), Days(1) + Hours(9)}, {Hours(1)})
    \cup WindowBodies({1}, {Hours(23)}, {Hours(8)})

\* Complete bodies for windows of field 1 that start at 02:00 or 03:00 and
\* last 1 or 3 hours, and the instants around their ends.
OverlapBodies ==
    WindowBodies({1}, {Hours(2), Hours(3)}, {Hours(1), Hours(3)})

OverlapInstants ==
    {Hours(1), Hours(2), Hours(2) + 30, Hours(3), Hours(4), Hours(5),
     Hours(6), Hours(7)}

\* Rates in cents per hour, starts, and durations of 1 to 8 hours in minutes
\* of which the cost is or is not a whole number of cents.
CostRates == {0, 4500, 5000}

CostStarts == {1, 61, Hours(9), Days(1) + 1}

CostDurations ==
    {Hours(1), 80, 100, Hours(2), 160, 200, Hours(4), 400, Hours(8)}

\* Complete bodies for windows of field 1 that last 1 hour or 8 hours and
\* start at 07:00, 13:00 or 23:00 of day 0.
SuggestionBodies ==
    WindowBodies({1}, {Hours(7), Hours(13), Hours(23)}, {Hours(1), Hours(8)})

\* Complete bodies for one-hour windows of field 1 that start one minute, 2
\* hours, 4 hours, and one minute more than each, after the instant 0.
DeadlineBodies ==
    WindowBodies({1}, {1, Hours(CancelHours), Hours(CancelHours) + 1,
                       Hours(ModifyHours), Hours(ModifyHours) + 1},
                 {Hours(1)})

\* Complete bodies for one window of each field, with or without a
\* booked_by.
CallerBodies ==
    {b @@ u : b \in WindowBodies(FieldIds, {61}, {Hours(1)}),
              u \in Optional("booked_by", UserIds)}

NoDrift == {0}
Drifts == {0, 1}

----------------------------------------------------------------------------
(* Specifications *)

Init ==
    /\ now = 0
    /\ fields = [f \in FieldIds |->
                    [hourly_rate |-> 5000, is_available |-> TRUE,
                     is_active |-> TRUE]]
    /\ bookings = <<>>
    /\ nextId = 1
    /\ fieldEdits = 0
    /\ requests = 0
    /\ clients = [c \in 1..MaxClients |-> Idle]
    /\ rateRead = <<>>
    /\ last = Response("none", 0, 0, "ok", "", NoBody, 0, 0)

Create == CreateRequest(FullBodies, NoDrift, FALSE)

Put == Update(FullBodies, NoDrift, FALSE)

Patch == PartialUpdate(PatchBodies, NoDrift, FALSE)

\* A step of a run of at most MaxRequests requests, each served alone.
Counted(A) ==
    /\ requests < MaxRequests
    /\ requests' = requests + 1
    /\ UNCHANGED clients
    /\ A

\* A step of a run of any length of requests, each served alone.
Uncounted(A) == UNCHANGED <<requests, clients>> /\ A

\* Every request of the booking and field interfaces, one at a time, while
\* the clock runs.
Next ==
    \/ Counted(Create)
    \/ Counted(Put)
    \/ Counted(Patch)
    \/ Counted(Confirm)
    \/ Counted(Cancel)
    \/ Counted(Complete)
    \/ Counted(ToggleActive)
    \/ Counted(FieldUpdate)
    \/ Counted(Tick)

Spec == Init /\ [][Next]_vars

CreateLifecycle == CreateRequest(LifecycleBodies, NoDrift, FALSE)

\* Create, confirm, cancel and complete requests only, one at a time, all
\* for windows that lie ahead of the clock.
NextLifecycle ==
    \/ Uncounted(CreateLifecycle)
    \/ Uncounted(Confirm)
    \/ Uncounted(Cancel)
    \/ Uncounted(Complete)

SpecLifecycle == Init /\ [][NextLifecycle]_vars

CreateBoundary == CreateRequest(BoundaryBodies, Drifts, TRUE)

\* Create requests at the limits of the time rules, one at a time, while
\* the clock runs, also between the two readings a request takes of it.
NextCreate ==
    \/ Uncounted(CreateBoundary)
    \/ Uncounted(Tick)

SpecCreate == Init /\ [][NextCreate]_vars

CreateSlot == CreateRequest(SlotBodies, NoDrift, FALSE)

\* The three status actions and toggle_active on the successive bookings of
\* one window, one request at a time, while the clock runs.
NextActions ==
    \/ Uncounted(CreateSlot)
    \/ Uncounted(Confirm)
    \/ Uncounted(Cancel)
    \/ Uncounted(Complete)
    \/ Uncounted(ToggleActive)
    \/ Uncounted(Tick)

SpecActions == Init /\ [][NextActions]_vars

CreatePlain == CreateRequest(PlainBodies, NoDrift, TRUE)

\* Create requests, one at a time, while the fields are edited and the
\* clock runs.
NextFields ==
    \/ Uncounted(CreatePlain)
    \/ Uncounted(FieldUpdate)
    \/ Uncounted(Tick)

SpecFields == Init /\ [][NextFields]_vars

CreateAs == CreateRequestBy(UserIds, CallerBodies, NoDrift, TRUE)

\* Create requests by every kind of caller, for themselves and for others.
NextCallers == Uncounted(CreateAs)

SpecCallers == Init /\ [][NextCallers]_vars

CreateDeadline == CreateRequest(DeadlineBodies, NoDrift, FALSE)

\* Bookings near the cancellation and modification deadlines, created,
\* confirmed, cancelled, completed and read back while the clock runs.
NextDeadlines ==
    \/ Uncounted(CreateDeadline)
    \/ Uncounted(Confirm)
    \/ Uncounted(Cancel)
    \/ Uncounted(Complete)
    \/ Uncounted(Retrieve)
    \/ Uncounted(Tick)

SpecDeadlines == Init /\ [][NextDeadlines]_vars

CreateEdit == CreateRequest(PlainBodies, NoDrift, FALSE)

PutEdit == Update({d \in PlainBodies : d.field = 1}, NoDrift, FALSE)

PatchEdit == PartialUpdate(EditBodies, NoDrift, FALSE)

\* Bookings created with the default status, confirmed, rewritten in full
\* or in part, and deleted.
NextEdits ==
    \/ Uncounted(CreateEdit)
    \/ Uncounted(PutEdit)
    \/ Uncounted(PatchEdit)
    \/ Uncounted(Confirm)
    \/ Uncounted(Destroy)

SpecEdits == Init /\ [][NextEdits]_vars

\* Requests with complete bodies for field 1, and with partial bodies that
\* move one end of the window.
CreateMailed ==
    CreateRequestMail({SystemAdmin}, {d \in PlainBodies : d.field = 1},
                      NoDrift, FALSE, MailOutcomes)

PutMailed == Update({d \in PlainBodies : d.field = 1}, NoDrift, FALSE)

PatchMailed ==
    PartialUpdate(Required("start_time", StartTimes)
                      \cup Required("end_time", EndTimes),
                  NoDrift, FALSE)

\* Create, update and status requests, valid and invalid, whose e-mails are
\* delivered or fail.
NextMail ==
    \/ Uncounted(CreateMailed)
    \/ Uncounted(PutMailed)
    \/ Uncounted(PatchMailed)
    \/ Uncounted(ConfirmMail)
    \/ Uncounted(CancelMail)
    \/ Uncounted(CompleteMail)

SpecMail == Init /\ [][NextMail]_vars

CreateSuggestion == CreateRequest(SuggestionBodies, NoDrift, FALSE)

\* Queries for windows of 2 hours at 08:00 and 19:00 of day 0 and at 03:00
\* of day 1, and for longer ones.
CheckSuggestion ==
    CheckAvailability({Hours(8), Hours(19), Days(1) + Hours(3)},
                      {Hours(10), Hours(21), Days(1) + Hours(5)}, {0})

\* Bookings early and late in a day and across midnight, confirmed and
\* cancelled, and availability queries about them.
NextSuggestions ==
    \/ Uncounted(CreateSuggestion)
    \/ Uncounted(Confirm)
    \/ Uncounted(Cancel)
    \/ Uncounted(CheckSuggestion)

SpecSuggestions == Init /\ [][NextSuggestions]_vars

\* Costs computed for every rate, start and duration.
NextCost == Uncounted(ComputeCost(CostRates, CostStarts, CostDurations))

SpecCost == Init /\ [][NextCost]_vars

CreateUtilization == CreateRequest(UtilizationBodies, NoDrift, FALSE)

GetUtilization == Utilization({NoDate, 0, 1}, {NoDate, 0, 1})

\* Bookings of two days, confirmed, completed and cancelled, and the
\* utilization of their field over ranges of these days.
NextUtilization ==
    \/ Uncounted(CreateUtilization)
    \/ Uncounted(Confirm)
    \/ Uncounted(Cancel)
    \/ Uncounted(Complete)
    \/ Uncounted(GetUtilization)

SpecUtilization == Init /\ [][NextUtilization]_vars

CreateOverlap == CreateRequest(OverlapBodies, NoDrift, TRUE)

CheckOverlap ==
    CheckAvailability({Hours(2), Hours(3)}, {Hours(3), Hours(5)}, {0})

AvailabilityOverlap ==
    AvailabilityRequest({Hours(2), Hours(3)}, {Hours(3), Hours(5)})

\* Bookings that touch, contain and cross one another's windows, created,
\* refused, confirmed and cancelled, and availability queries about them.
NextOverlap ==
    \/ Uncounted(CreateOverlap)
    \/ Uncounted(Confirm)
    \/ Uncounted(Cancel)
    \/ Uncounted(CheckOverlap)
    \/ Uncounted(AvailabilityOverlap)

SpecOverlap == Init /\ [][NextOverlap]_vars

CreateOne == CreateRequest(WindowBodies({1}, {61}, {Hours(1)}), NoDrift, FALSE)

\* One window booked, confirmed by a request served alone, and status
\* actions of several clients whose transactions interleave.
NextStatusRace ==
    \/ Uncounted(CreateOne)
    \/ Uncounted(Confirm)
    \/ \E c \in 1..MaxClients, op \in {"confirm", "cancel", "complete"},
          id \in 1..MaxBookings : StatusRead(c, op, id)
    \/ \E c \in 1..MaxClients : StatusWrite(c)
    \/ \E c \in 1..MaxClients : StatusCommit(c)

SpecStatusRace == Init /\ [][NextStatusRace]_vars

\* The state after construction with a field 2 that is free of charge.
InitFree ==
    /\ now = 0
    /\ fields = [f \in FieldIds |->
                    [hourly_rate |-> IF f = 2 THEN 0 ELSE 5000,
                     is_available |-> TRUE, is_active |-> TRUE]]
    /\ bookings = <<>>
    /\ nextId = 1
    /\ fieldEdits = 0
    /\ requests = 0
    /\ clients = [c \in 1..MaxClients |-> Idle]
    /\ rateRead = <<>>
    /\ last = Response("none", 0, 0, "ok", "", NoBody, 0, 0)

CreateToggle ==
    CreateRequest(WindowBodies(FieldIds, {61}, {Hours(1), Hours(2)}), NoDrift,
                  TRUE)

FieldRate == FieldUpdateRequest({"hourly_rate"})

CheckToggle == CheckAvailability({61}, {121}, {0})

AvailabilityToggle == AvailabilityRequest({61}, {121})

\* Bookings of a charged and of a free field, created, confirmed and
\* switched inactive and active, availability queries about their window,
\* and a change of a field's rate.
NextToggle ==
    \/ Uncounted(CreateToggle)
    \/ Uncounted(Confirm)
    \/ Uncounted(ToggleActive)
    \/ Uncounted(FieldRate)
    \/ Uncounted(CheckToggle)
    \/ Uncounted(AvailabilityToggle)

SpecToggle == InitFree /\ [][NextToggle]_vars

CreateDay == CreateRequest(DayBodies, NoDrift, TRUE)

CheckAny == CheckAvailability(DayStarts, QueryEnds, 0..1)

FieldFlags == FieldUpdateRequest({"is_available", "is_active"})

\* Availability queries between create and cancel requests and edits of
\* the fields' flags.
NextAvailability ==
    \/ Uncounted(CreateDay)
    \/ Uncounted(Cancel)
    \/ Uncounted(FieldFlags)
    \/ Uncounted(CheckAny)

SpecAvailability == Init /\ [][NextAvailability]_vars

\* One create request per client, their steps interleaved.
NextRace ==
    \/ \E c \in 1..MaxClients : RaceValidate(c, PlainBodies)
    \/ \E c \in 1..MaxClients : RaceCheck(c)
    \/ \E c \in 1..MaxClients : RaceInsert(c)
    \/ \E c \in 1..MaxClients : RaceCommit(c)

SpecRace == Init /\ [][NextRace]_vars

----------------------------------------------------------------------------
(* Properties *)

\* Two rows hold the same field at a common instant of their half-open
\* windows.
Intersect(a, b) ==
    /\ a.field = b.field
    /\ a.start_time < b.end_time
    /\ b.start_time < a.end_time

Blocking(b) == b.status \in {"pending", "confirmed"}

\* C1: after any sequence of create, confirm, cancel and complete requests
\* run one at a time, no field has two distinct pending or confirmed
\* bookings whose [start_time, end_time) windows intersect.
NoOverlap ==
    \A i, j \in DOMAIN bookings :
        (i # j /\ Blocking(bookings[i]) /\ Blocking(bookings[j]))
            => ~Intersect(bookings[i], bookings[j])

\* C1 witness: a create was refused for a conflict while its field holds two
\* blocking bookings side by side.
NoOverlapWitness ==
    /\ last.op = "create" /\ last.code = 400 /\ last.err = "conflict"
    /\ \E i, j \in DOMAIN bookings :
           /\ i # j
           /\ bookings[i].field = bookings[j].field
           /\ bookings[i].status = "confirmed"
           /\ bookings[j].status = "pending"
           /\ bookings[i].end_time = bookings[j].start_time

StatusOps == {"confirm", "cancel", "complete"}

\* The edges of the booking state machine: the statuses an action may start
\* from, and the status it leads to.
EdgeFrom(op) ==
    CASE op = "confirm" -> {"pending"}
      [] op = "complete" -> {"confirmed"}
      [] op = "cancel" -> {"pending", "confirmed"}

EdgeTo(op) ==
    CASE op = "confirm" -> "confirmed"
      [] op = "complete" -> "completed"
      [] op = "cancel" -> "cancelled"

\* The step is the status action op served for the booking id, which the
\* endpoint resolves (the row exists and is active).
Served(op, id) ==
    /\ last'.op = op /\ last'.id = id
    /\ id \in DOMAIN bookings /\ bookings[id].is_active

\* C5: confirm succeeds exactly from pending and sets confirmed, complete
\* exactly from confirmed and sets completed, cancel exactly from pending or
\* confirmed and sets cancelled; otherwise the status stays as it was.
StatusEdges ==
    [][\A op \in StatusOps, id \in 1..MaxBookings :
          Served(op, id) =>
              IF bookings[id].status \in EdgeFrom(op)
              THEN last'.code = 200 /\ bookings'[id].status = EdgeTo(op)
              ELSE last'.code # 200
                   /\ bookings'[id].status = bookings[id].status]_vars

\* C5 witness: a complete request has just succeeded on a booking, while an
\* earlier booking of the window stands cancelled.
StatusEdgesWitness ==
    /\ last.op = "complete" /\ last.code = 200
    /\ bookings[last.id].status = "completed"
    /\ \E j \in DOMAIN bookings : bookings[j].status = "cancelled"

\* C6: a status action whose guard fails is answered 400 with the current
\* status named, changes no attribute of any booking, and stays refused
\* when repeated.
RejectedUnchanged ==
    /\ [][\A op \in StatusOps, id \in 1..MaxBookings :
            (Served(op, id) /\ bookings[id].status \notin EdgeFrom(op)) =>
                /\ last'.code = 400
                /\ last'.named = bookings[id].status
                /\ bookings' = bookings]_vars
    /\ [](\A op \in StatusOps :
            (last.op = op /\ last.code = 400) =>
                /\ bookings[last.id].status \notin EdgeFrom(op)
                /\ last.named = bookings[last.id].status)

\* C6 witness: a confirm was refused on a booking that is already confirmed.
RejectedUnchangedWitness ==
    /\ last.op = "confirm" /\ last.code = 400 /\ last.named = "confirmed"
    /\ bookings[last.id].status = "confirmed"

Terminal == {"cancelled", "completed"}

\* C3: every accepted update, full or partial, leaves the booking with a
\* duration of 1 to 8 hours and, while it is pending or confirmed, with no
\* overlap with any other pending or confirmed booking of its field.
UpdateKeepsRules ==
    (last.op \in {"update", "partial_update"} /\ last.code = 200) =>
        LET b == bookings[last.id]
        IN  /\ b.end_time - b.start_time >= Hours(1)
            /\ b.end_time - b.start_time <= Hours(8)
            /\ \A j \in DOMAIN bookings :
                   (j # last.id /\ Blocking(b) /\ Blocking(bookings[j]))
                       => ~Intersect(b, bookings[j])

\* C4: a booking whose status is cancelled or completed keeps that status
\* through every later request.
TerminalStays ==
    [][\A id \in DOMAIN bookings :
          bookings[id].status \in Terminal
              => bookings'[id].status = bookings[id].status]_vars

\* C7: a booking persisted by a create request has status pending right
\* after the request.
CreatedPending ==
    (last.op = "create" /\ last.code = 201)
        => bookings[last.id].status = "pending"

\* C8: every stored total_cost is the booking's duration times the hourly
\* rate read at the last create or update that set its field, start_time
\* or end_time.
CostMatches ==
    \A id \in DOMAIN bookings :
        bookings[id].total_cost =
            CalcCost(rateRead[id], bookings[id].start_time,
                     bookings[id].end_time)

\* The length in minutes of the window a body asks for.
Duration(d) == d.end_time - d.start_time

\* The body d asks for a window that no pending or confirmed booking of the
\* rows bks intersects, on a field that is active and available.
FieldFree(bks, d) ==
    /\ fields[d.field].is_active /\ fields[d.field].is_available
    /\ \A i \in DOMAIN bks :
           Blocking(bks[i]) =>
               ~Intersect(bks[i], [field |-> d.field,
                                   start_time |-> d.start_time,
                                   end_time |-> d.end_time])

\* The start of d is after the first reading of the clock and within 90
\* days of the second.
StartInRange(d, t1, t2) ==
    d.start_time > t1 /\ d.start_time <= t2 + Days(90)

DurationInRange(d) == Duration(d) >= Hours(1) /\ Duration(d) <= Hours(8)

\* C9: a create request that passes every other rule is accepted exactly
\* when its duration is at least 1 hour and at most 8 hours; exactly 1 hour
\* and exactly 8 hours are accepted, 59 minutes and 8 hours 1 minute are
\* refused for the duration and nothing is persisted.
DurationBounds ==
    [][last'.op = "create" =>
          LET d == last'.body
          IN  /\ (StartInRange(d, last'.t1, last'.t2) /\ FieldFree(bookings, d))
                    => (last'.code = 201 <=> DurationInRange(d))
              /\ Duration(d) = Hours(1) - 1 =>
                    last'.err = "min_duration" /\ bookings' = bookings
              /\ Duration(d) = Hours(8) + 1 =>
                    last'.err = "max_duration" /\ bookings' = bookings
              /\ last'.code = 201 =>
                    /\ DurationInRange(d)
                    /\ Duration(bookings'[last'.id]) = Duration(d)]_vars

\* C9 witness: a booking of exactly 8 hours is stored next to one of exactly
\* 1 hour, and a request for 59 minutes has just been refused.
DurationBoundsWitness ==
    /\ last.op = "create" /\ last.code = 400
    /\ Duration(last.body) = Hours(1) - 1
    /\ \E i, j \in DOMAIN bookings :
           /\ Duration(bookings[i]) = Hours(1)
           /\ Duration(bookings[j]) = Hours(8)

\* C10: a create request that passes every other rule is accepted exactly
\* when its start is after the clock as first read and at most 90 days after
\* the clock as read for the horizon; a start at or before the time of the
\* request is refused, a start exactly 90 days after it is accepted, and a
\* start 91 days after it is refused.
StartBounds ==
    [][last'.op = "create" =>
          LET d == last'.body
              t == last'.t1
          IN  /\ (DurationInRange(d) /\ FieldFree(bookings, d))
                    => (last'.code = 201
                            <=> StartInRange(d, last'.t1, last'.t2))
              /\ (DurationInRange(d) /\ d.start_time <= t) =>
                    last'.err = "not_in_future" /\ bookings' = bookings
              /\ (DurationInRange(d) /\ d.start_time = t + Days(91)) =>
                    last'.err = "too_far_ahead" /\ bookings' = bookings
              /\ (DurationInRange(d) /\ FieldFree(bookings, d)
                    /\ d.start_time = t + Days(90)) => last'.code = 201]_vars

\* C10 witness: a request made after the clock has moved, for a start
\* exactly 90 days after the request, has just been accepted.
StartBoundsWitness ==
    /\ last.op = "create" /\ last.code = 201
    /\ last.t1 > 0
    /\ last.body.start_time = last.t1 + Days(90)
    /\ bookings[last.id].start_time = last.t1 + Days(90)

\* C2: concurrent create requests for one field can both pass the overlap
\* check before either inserts and then both be persisted as pending with
\* intersecting windows: once a request has passed perform_create's query
\* it is inserted and committed whatever other transactions have written
\* since, the end > start constraint being all the storage enforces.
CheckedIsStored ==
    \A c \in 1..MaxClients :
        (clients[c].inserts >= 0 /\ clients[c].pc \in {"done", "rejected"}) =>
            /\ clients[c].pc = "done"
            /\ clients[c].id \in DOMAIN bookings
            /\ bookings[clients[c].id].status = "pending"
            /\ bookings[clients[c].id].field = clients[c].body.field
            /\ bookings[clients[c].id].start_time = clients[c].body.start_time
            /\ bookings[clients[c].id].end_time = clients[c].body.end_time

\* C2 witness: two requests passed the check before any INSERT had run, and
\* both are committed as pending bookings of one field whose windows
\* intersect.
CheckedIsStoredWitness ==
    \E c1, c2 \in 1..MaxClients :
        /\ c1 # c2
        /\ clients[c1].pc = "done" /\ clients[c2].pc = "done"
        /\ clients[c1].inserts = 0 /\ clients[c2].inserts = 0
        /\ bookings[clients[c1].id].status = "pending"
        /\ bookings[clients[c2].id].status = "pending"
        /\ Intersect(bookings[clients[c1].id], bookings[clients[c2].id])

\* C11: a create request for a field whose is_available or is_active is
\* false is answered with a validation error and persists no booking,
\* whether or not the requested window is free.
UnavailableRefused ==
    [][\A f \in FieldIds :
          (/\ last'.op = "create"
           /\ Has(last'.body, "field")
           /\ last'.body.field = f
           /\ (~fields[f].is_available \/ ~fields[f].is_active)) =>
              /\ last'.code = 400
              /\ bookings' = bookings
              /\ nextId' = nextId]_vars

\* C11 witness: a create for a free window of a field that is available but
\* no longer active has just been refused for the field's flags alone.
UnavailableRefusedWitness ==
    /\ last.op = "create" /\ last.code = 400
    /\ last.err = "field_unavailable"
    /\ fields[last.body.field].is_available
    /\ ~fields[last.body.field].is_active
    /\ FieldIds \ {last.body.field} # {}
    /\ \A i \in DOMAIN bookings : bookings[i].field # last.body.field

\* The bookings that compete for the window [s, e) of the field f, other
\* than the booking x.
Competitors(f, s, e, x) ==
    {i \in DOMAIN bookings :
        /\ i # x
        /\ bookings[i].field = f
        /\ bookings[i].status \in {"pending", "confirmed"}
        /\ s < bookings[i].end_time
        /\ bookings[i].start_time < e}

\* The step has answered an availability query.
Answered == last'.op = "check_availability" /\ last'.code = 200

\* C12: on an active and available field check_field_availability returns
\* as conflicts exactly the pending and confirmed bookings of the field,
\* other than the excluded one, whose window [s2, e2) has s < e2 and
\* s2 < e; completed and cancelled bookings and bookings that only touch
\* the window are not returned, and a create whose window touches no more
\* than the ends of the blocking bookings of its field is accepted.
ConflictsExact ==
    [][/\ (/\ Answered
            /\ fields[last'.body.field].is_active
            /\ fields[last'.body.field].is_available) =>
               LET q == last'.body
               IN  /\ last'.answer.conflicts =
                          Competitors(q.field, q.start_time, q.end_time,
                                      q.exclude)
                   /\ \A i \in last'.answer.conflicts :
                          /\ bookings[i].status \notin
                                 {"completed", "cancelled"}
                          /\ bookings[i].end_time # q.start_time
                          /\ bookings[i].start_time # q.end_time
       /\ (/\ last'.op = "create"
            /\ DurationInRange(last'.body)
            /\ StartInRange(last'.body, last'.t1, last'.t2)
            /\ FieldFree(bookings, last'.body)) => last'.code = 201]_vars

\* C12 witness: a booking was accepted for the window that starts when a
\* pending booking of the field ends, and a query for that window has just
\* answered with the second booking as its only conflict.
ConflictsExactWitness ==
    /\ last.op = "check_availability" /\ last.code = 200
    /\ last.body.exclude = 0
    /\ \E i, j \in DOMAIN bookings :
           /\ i < j
           /\ bookings[i].field = last.body.field
           /\ bookings[j].field = last.body.field
           /\ bookings[i].status = "pending"
           /\ bookings[j].status = "pending"
           /\ bookings[i].end_time = bookings[j].start_time
           /\ last.body.start_time = bookings[j].start_time
           /\ last.body.end_time = bookings[j].end_time
           /\ last.answer.conflicts = {j}

\* C13: on an inactive or unavailable field check_field_availability
\* answers available = false with no conflicts and no suggestions, whatever
\* the window and the bookings; on an active and available field available
\* is true exactly when the conflict list is empty, and suggestions are
\* given only with a conflict list that is not empty.
AvailabilityAnswer ==
    [][Answered =>
          LET a == last'.answer
              f == last'.body.field
          IN  IF ~fields[f].is_active \/ ~fields[f].is_available
              THEN /\ ~a.available
                   /\ a.conflicts = {}
                   /\ a.suggestions = <<>>
              ELSE /\ a.available <=> a.conflicts = {}
                   /\ a.suggestions # <<>> => a.conflicts # {}]_vars

\* C13 witness: a query for a window taken by a pending booking of a field
\* that has been made unavailable has just been answered, with no conflicts.
AvailabilityAnswerWitness ==
    /\ last.op = "check_availability" /\ last.code = 200
    /\ ~fields[last.body.field].is_available
    /\ Competitors(last.body.field, last.body.start_time,
                   last.body.end_time, last.body.exclude) # {}
    /\ last.answer.conflicts = {}
    /\ ~last.answer.available

\* C14: a booking created by an academy admin with an explicit booked_by is
\* accepted only when that user belongs to the academy of the booked field.
BookedByOfFieldAcademy ==
    (/\ last.op = "create" /\ last.code = 201
     /\ UserType(last.caller) = "academy_admin"
     /\ Has(last.body, "booked_by")) =>
        UserAcademy(last.body.booked_by) = FieldAcademy(last.body.field)

\* C15: every booking created by a caller who is neither an academy admin
\* nor a system admin is stored with booked_by equal to the caller,
\* whatever booked_by the body carries.
BookedByCaller ==
    [][(/\ last'.op = "create" /\ last'.code = 201
        /\ UserType(last'.caller) \notin {"academy_admin", "system_admin"})
          => /\ last'.id \notin DOMAIN bookings
             /\ bookings'[last'.id].booked_by = last'.caller]_vars

\* C15 witness: an external client's request naming another user as
\* booked_by has just been accepted and stored under the client.
BookedByCallerWitness ==
    /\ last.op = "create" /\ last.code = 201
    /\ UserType(last.caller) = "external_client"
    /\ Has(last.body, "booked_by")
    /\ last.body.booked_by # last.caller
    /\ bookings[last.id].booked_by = last.caller

\* The booking b is not cancelled or completed and starts more than h hours
\* after the instant t.
OpenUntil(b, t, h) ==
    b.status \notin {"cancelled", "completed"} /\ t < b.start_time - Hours(h)

\* C16: can_cancel, as returned by the API and as the model property, is
\* true only for a booking that is neither cancelled nor completed and
\* starts more than 2 hours from now.
CanCancelRule ==
    /\ (last.op = "retrieve" /\ last.code = 200 /\ last.can_cancel) =>
           OpenUntil(bookings[last.id], now, 2)
    /\ \A id \in DOMAIN bookings :
           CanCancel(bookings[id], now) => OpenUntil(bookings[id], now, 2)

\* C17: can_modify, as returned by the API and as the model property, is
\* true only for a pending booking that starts more than 4 hours from now.
CanModifyRule ==
    /\ (last.op = "retrieve" /\ last.code = 200 /\ last.can_modify) =>
           /\ bookings[last.id].status = "pending"
           /\ OpenUntil(bookings[last.id], now, 4)
    /\ \A id \in DOMAIN bookings :
           CanModify(bookings[id], now) =>
               /\ bookings[id].status = "pending"
               /\ OpenUntil(bookings[id], now, 4)

\* C18: the stored field and window of a booking that is confirmed,
\* completed or cancelled never change.
WindowFrozen ==
    [][\A id \in DOMAIN bookings \cap DOMAIN bookings' :
          bookings[id].status # "pending" =>
              /\ bookings'[id].field = bookings[id].field
              /\ bookings'[id].start_time = bookings[id].start_time
              /\ bookings'[id].end_time = bookings[id].end_time]_vars

\* C19: no request removes a persisted booking: every booking ever created
\* is still stored.
NeverDeleted ==
    \A id \in 1..(nextId - 1) : id \in DOMAIN bookings

\* C20: every stored booking has end_time > start_time, and a create,
\* update or partial update that is refused, by validation or by the
\* storage constraint, leaves the stored bookings as they were.
EndAfterStart ==
    /\ [](\A id \in DOMAIN bookings :
             bookings[id].end_time > bookings[id].start_time)
    /\ [][(/\ last'.op \in {"create", "update", "partial_update"}
            /\ last'.code \in {400, 500}) => bookings' = bookings]_vars

\* C20 witness: a partial update that would have stored a window ending
\* before it starts has just been refused by the storage constraint.
EndAfterStartWitness ==
    /\ last.op = "partial_update" /\ last.code = 500
    /\ last.err = "integrity"
    /\ bookings[last.id].end_time > bookings[last.id].start_time

\* The step served a request whose notification e-mail failed.
MailFailed == Has(last', "mail") /\ last'.mail = "failed"

\* C21: when a notification e-mail fails during create, confirm, cancel or
\* complete, the request still returns its success result and the created
\* booking, or the booking's new status, is persisted.
MailFailureSwallowed ==
    [][/\ (last'.op = "create" /\ MailFailed) =>
              /\ last'.code = 201
              /\ last'.id \notin DOMAIN bookings
              /\ last'.id \in DOMAIN bookings'
       /\ \A op \in StatusOps :
              (last'.op = op /\ MailFailed) =>
                  /\ last'.code = 200
                  /\ bookings[last'.id].status \in EdgeFrom(op)
                  /\ bookings'[last'.id].status = EdgeTo(op)]_vars

\* C21 witness: a complete request whose e-mail failed has just succeeded.
MailFailureSwallowedWitness ==
    /\ last.op = "complete" /\ last.code = 200
    /\ Has(last, "mail") /\ last.mail = "failed"
    /\ bookings[last.id].status = "completed"

\* C22: a create, update, confirm, cancel or complete request that ends
\* with an error leaves the set of bookings and every attribute of every
\* booking as it was.
ErrorLeavesBookings ==
    [][(/\ last'.op \in {"create", "update", "partial_update", "confirm",
                          "cancel", "complete"}
        /\ last'.code \notin {200, 201}) => bookings' = bookings]_vars

\* C22 witness: a partial update of a confirmed booking has just been
\* refused by the storage constraint, after the write was attempted.
ErrorLeavesBookingsWitness ==
    /\ last.op = "partial_update" /\ last.code = 500
    /\ bookings[last.id].status = "confirmed"
    /\ \E j \in DOMAIN bookings : j # last.id

\* C23: cancel accepts every pending or confirmed booking whatever the time
\* left before its start, also when can_cancel is false (2 hours or less
\* before the start, or once it has started); it refuses on the status
\* only.
CancelIgnoresDeadline ==
    [][\A id \in 1..MaxBookings :
          Served("cancel", id) =>
              IF bookings[id].status \in {"pending", "confirmed"}
              THEN /\ last'.code = 200
                   /\ bookings'[id].status = "cancelled"
              ELSE /\ last'.code = 400
                   /\ bookings' = bookings]_vars

\* C23 witness: a cancel has just succeeded on a booking that has already
\* started, for which can_cancel was false.
CancelIgnoresDeadlineWitness ==
    /\ last.op = "cancel" /\ last.code = 200
    /\ bookings[last.id].status = "cancelled"
    /\ bookings[last.id].start_time <= now
    /\ ~GetCanCancel([bookings[last.id] EXCEPT !.status = "confirmed"], now)

\* The suggestions of the answer a, as a set of windows.
Suggested(a) == {a.suggestions[k] : k \in 1..Len(a.suggestions)}

\* C24: the suggestions of an answer are at most 3, in increasing order of
\* start, each of exactly the requested duration, and each entirely inside
\* 08:00-22:00 of the calendar day of the requested start_time, whatever
\* the bookings of that day.
SuggestionsInDay ==
    (last.op = "check_availability" /\ last.code = 200) =>
        LET q == last.body
            sg == last.answer.suggestions
            day == DayOf(q.start_time)
        IN  /\ Len(sg) <= 3
            /\ \A k \in 1..Len(sg) :
                   /\ sg[k].end_time - sg[k].start_time =
                          q.end_time - q.start_time
                   /\ sg[k].start_time >= day + Hours(8)
                   /\ sg[k].end_time <= day + Hours(22)
                   /\ k > 1 => sg[k - 1].start_time < sg[k].start_time

\* C29: no suggestion returned by check_field_availability overlaps a
\* pending or confirmed booking of the field, for every set of bookings
\* reachable through create.
SuggestionsFree ==
    [][Answered =>
          \A w \in Suggested(last'.answer), i \in DOMAIN bookings :
              (/\ bookings[i].field = last'.body.field
               /\ bookings[i].status \in {"pending", "confirmed"}) =>
                  ~(/\ w.start_time < bookings[i].end_time
                    /\ bookings[i].start_time < w.end_time)]_vars

\* C29 witness: a query has just been answered with two suggestions, one
\* before and one after a pending booking of the field, while a second
\* blocking booking runs across midnight.
SuggestionsFreeWitness ==
    /\ last.op = "check_availability" /\ last.code = 200
    /\ Len(last.answer.suggestions) = 2
    /\ \E i, j \in DOMAIN bookings :
           /\ i # j
           /\ bookings[i].status = "pending"
           /\ bookings[j].status \in {"pending", "confirmed"}
           /\ bookings[i].start_time >= last.answer.suggestions[1].end_time
           /\ bookings[i].end_time <= last.answer.suggestions[2].start_time
           /\ DayOf(bookings[j].end_time) # DayOf(bookings[j].start_time)

\* The state holds a computed cost.
Costed == last.op = "cost"

\* Both computations of the cost agree and give the same value for every
\* start of a window of the same duration at the same rate.
CostOfRateAndDuration ==
    LET d == last.body.end_time - last.body.start_time
    IN  /\ last.serializer = last.model
        /\ \A s \in CostStarts :
               /\ CalcCost(last.rate, s, s + d) = last.serializer
               /\ CalculateTotalCost(last.rate, s, s + d) = last.model

Counting(f, sd, ed) ==
    {i \in DOMAIN bookings :
        /\ bookings[i].field = f
        /\ bookings[i].status \in {"confirmed", "completed"}
        /\ DateOf(bookings[i].start_time) \in sd..ed}

Window(s, e) == [start_time |-> s, end_time |-> e]

\* C27: for bookings with end_time > start_time and every window with
\* end > start, the four-clause filter of _check_booking_conflicts selects
\* the same bookings as the half-open test of perform_create, of
\* FieldViewSet.availability and of check_field_availability, and both
\* tests give the same answer when the booking and the window are swapped.
OverlapFiltersAgree ==
    /\ \A f \in FieldIds, s \in OverlapInstants, e \in OverlapInstants :
           s < e =>
               LET four == CheckBookingConflicts(bookings, 0, f, s, e)
               IN  /\ four = ConflictingBookings(bookings, f, s, e)
                   /\ four = FieldAvailability(bookings, f, s, e).conflicts
                   /\ four = CheckFieldAvailability(bookings, f, s, e,
                                                    0).conflicts
                   /\ \A i \in DOMAIN bookings :
                          LET b == bookings[i]
                          IN  /\ b.end_time > b.start_time
                              /\ Overlaps(b, s, e) =
                                     Overlaps(Window(s, e), b.start_time,
                                              b.end_time)
                              /\ FourClause(b, s, e) =
                                     FourClause(Window(s, e), b.start_time,
                                                b.end_time)
    /\ (last.op \in {"check_availability", "availability"}
            /\ last.code = 200) =>
           last.answer.conflicts =
               CheckBookingConflicts(bookings, 0, last.body.field,
                                     last.body.start_time,
                                     last.body.end_time)

\* C27 witness: a create has just been refused by the serializer for a
\* window that strictly contains a pending booking, while a booking that
\* only touches that booking stands accepted.
OverlapFiltersAgreeWitness ==
    /\ last.op = "create" /\ last.code = 400 /\ last.err = "conflict"
    /\ \E i, j \in DOMAIN bookings :
           /\ bookings[i].status = "pending"
           /\ bookings[j].status = "pending"
           /\ bookings[i].end_time = bookings[j].start_time
           /\ last.body.start_time < bookings[j].start_time
           /\ bookings[j].end_time < last.body.end_time

\* The step commits the status action of the client c.
Commits(c) == clients[c].pc = "written" /\ clients'[c].pc = "done"

\* C28: status actions on one booking that run concurrently end as one of
\* their serial orders does: no action reports success on a booking whose
\* status has been written as cancelled or completed, so that such a status
\* is never overwritten and the booking never ends confirmed or completed
\* after a successful cancel.
StatusRaceSerial ==
    [][\A c \in 1..MaxClients :
          Commits(c) => bookings[clients[c].id].status \notin Terminal]_vars

\* The pending and confirmed bookings of the field f, active or not, whose
\* window intersects [s, e).
Holding(f, s, e) ==
    {i \in DOMAIN bookings :
        /\ bookings[i].field = f
        /\ Blocking(bookings[i])
        /\ bookings[i].start_time < e
        /\ s < bookings[i].end_time}

\* A toggle_active request changes is_active of its booking and nothing
\* else.
ToggleFrame ==
    [][(last'.op = "toggle_active" /\ last'.code = 200) =>
          bookings' = [bookings EXCEPT ![last'.id].is_active =
                                           ~bookings[last'.id].is_active]]_vars

\* A window held by a pending or confirmed booking, active or not, is
\* refused to a create and reported as taken by both availability checks.
InactiveStillBlocks ==
    [][/\ (/\ last'.op = "create"
            /\ Holding(last'.body.field, last'.body.start_time,
                        last'.body.end_time) # {}) => last'.code = 400
       /\ (last'.op \in {"check_availability", "availability"}
               /\ last'.code = 200) =>
              last'.answer.conflicts =
                  Holding(last'.body.field, last'.body.start_time,
                          last'.body.end_time)]_vars

\* C30: toggle_active on a booking changes only is_active (status, window
\* and total_cost stay as they were), and a pending or confirmed booking
\* that is inactive still blocks its window for create and is still
\* reported by both availability checks.
ToggleOnlyIsActive == ToggleFrame /\ InactiveStillBlocks

====
